---- MODULE Spec2Model ----
(***************************************************************************)
(* MiniStore (src/ministore.js): the state container built by create().    *)
(*                                                                         *)
(* A JavaScript object is a record [id, arr, f]: id is its reference      *)
(* identity (=== on objects compares ids), arr is Array.isArray of it and  *)
(* f maps its own enumerable field names to values.  A value is            *)
(* [t |-> "num", v |-> n] for a primitive or [t |-> "fn", v |-> name] for  *)
(* a function value (strict equality on both is equality of the record).   *)
(*                                                                         *)
(* setState runs synchronously up to each listener call; the position of   *)
(* every setState call that is inside its notification loop is a frame of  *)
(* `stack` (the loop index i of that call).  Operations of the consumer    *)
(* (setState, subscribe, unsubscribe, destroy, a promoted action) start    *)
(* only when no call is in progress (run to completion).                   *)
(*                                                                         *)
(* Spec has listeners that only return and data-valued partials.           *)
(* SpecLifecycle has fewer data values, and adds listeners that throw or   *)
(* call destroy(), function-valued partials, subscribe with a non-callable *)
(* and unsubscribe functions of earlier subscribe calls.  SpecRequest is   *)
(* the request client (ajax).                                              *)
(***************************************************************************)
EXTENDS Integers, Sequences, FiniteSets, TLC

VARIABLES
  initialState,      \* create: var initialState = createState(setState)
  state,             \* create: var state
  previousState,     \* create: var previousState
  listeners,         \* create: var listeners = new Set()   (insertion order)
  listenersArray,    \* create: var listenersArray
  needsListenerSync, \* create: var needsListenerSync
  api,               \* create: the fields promoted onto the handle
  unsubs,            \* per listener, the unsubscribe function the consumer
                     \* holds: "none", "held", or "called" once it has been
                     \* called and the listener not subscribed again
  stack,             \* loop index i of every setState call in progress
  nextId,            \* identity of the next object allocated
  last,              \* history: the consumer's most recent operation
  calls,             \* history: listener invocations made during that operation
  updaterArgs,       \* history: arguments the function partial was invoked with
  outcome,           \* history: how the consumer's latest call ended:
                     \* "fulfilled", "rejected" (its promise) or "thrown"
  net                \* the request client: errorTemplate and the requests made

vars == <<initialState, state, previousState, listeners, listenersArray,
          needsListenerSync, api, unsubs, stack, nextId, last, calls,
          updaterArgs, outcome, net>>

----------------------------------------------------------------------------
(* Bounds *)

MaxVal == 2        \* the updaters count up to MaxVal
MaxObjs == 4       \* object identities allocated by the container are 1..MaxObjs

Listener == {"L1", "L2"}
DataKeys == {"count", "name"}
\* the values the consumer writes into a data field
Values == {0, 1}

----------------------------------------------------------------------------
(* Values and objects *)

Num(n) == [t |-> "num", v |-> n]
Fn(name) == [t |-> "fn", v |-> name]

EmptyFields == [k \in {} |-> Num(0)]

\* An object literal built by the caller: a reference no stored object has.
Literal(fields) == [id |-> 0, arr |-> FALSE, f |-> fields]

\* The value of an unassigned var (previousState before the first commit).
Undefined == [id |-> -1, arr |-> FALSE, f |-> EmptyFields]

\* The object allocated by an expression evaluated inside the container
NewObject(id, fields) == [id |-> id, arr |-> FALSE, f |-> fields]

\* Object.keys(obj)
Keys(obj) == DOMAIN obj.f

\* Object.assign({}, a, b) : the own fields of a overridden by those of b
objectAssign(a, b) ==
  [k \in DOMAIN a \cup DOMAIN b |-> IF k \in DOMAIN b THEN b[k] ELSE a[k]]

----------------------------------------------------------------------------
(* shallowEqual *)

\* obj1 === obj2 on object references
SameReference(obj1, obj2) == obj1.id = obj2.id /\ obj1.id # 0

\* the keys "0", "1", ... of the elements of an array, by index
IndexKey == <<"0", "1", "2">>

\* obj.length of an array without holes
Length(obj) == Cardinality(Keys(obj))

\* a field or element that holds a reference to another object
Ref(id) == [t |-> "ref", v |-> id]

\* an array literal: the elements of seq under the keys "0", "1", ...
ArrayFields(seq) ==
  [k \in {IndexKey[i] : i \in DOMAIN seq} |->
     seq[CHOOSE i \in DOMAIN seq : IndexKey[i] = k]]

\* The objects and arrays handed to shallowEqual. Every shape is allocated
\* twice, so that two references with the same fields exist; the objects 1
\* and 2 are the two allocations of { count: 0 } that nested fields refer to.
Shapes ==
  << [arr |-> FALSE, f |-> [count |-> Num(0)]],
     [arr |-> FALSE, f |-> [count |-> Num(1)]],
     [arr |-> FALSE, f |-> [count |-> Num(0), name |-> Num(0)]],
     [arr |-> FALSE, f |-> [name |-> Num(0)]],
     [arr |-> FALSE, f |-> EmptyFields],
     [arr |-> TRUE,  f |-> EmptyFields],
     [arr |-> TRUE,  f |-> ArrayFields(<<Num(0)>>)],
     [arr |-> TRUE,  f |-> ArrayFields(<<Num(0), Num(1)>>)],
     [arr |-> TRUE,  f |-> ArrayFields(<<Num(1), Num(0)>>)],
     [arr |-> FALSE, f |-> ArrayFields(<<Num(0), Num(1)>>)],
     [arr |-> FALSE, f |-> ArrayFields(<<Num(0)>>)],
     [arr |-> FALSE, f |-> [nested |-> Ref(1)]],
     [arr |-> FALSE, f |-> [nested |-> Ref(2)]],
     [arr |-> TRUE,  f |-> ArrayFields(<<Ref(1)>>)],
     [arr |-> TRUE,  f |-> ArrayFields(<<Ref(2)>>)] >>

HeapObjects ==
  {[id |-> 2 * i - 1 + copy, arr |-> Shapes[i].arr, f |-> Shapes[i].f] :
     i \in DOMAIN Shapes, copy \in {0, 1}}

\* the object a reference points to
Deref(id) == CHOOSE o \in HeapObjects : o.id = id

\* mutant: two references are equal when the objects they point to have
\* equal fields
DeepEqual(v1, v2) ==
  IF v1.t = "ref" /\ v2.t = "ref" THEN Deref(v1.v).f = Deref(v2.v).f
  ELSE v1 = v2

\* mutant: the comparison goes one level into nested objects
shallowEqualDeep(obj1, obj2) ==
  IF SameReference(obj1, obj2) THEN TRUE
  ELSE IF obj1.arr # obj2.arr THEN FALSE
  ELSE IF Cardinality(Keys(obj1)) # Cardinality(Keys(obj2)) THEN FALSE
  ELSE \A key \in Keys(obj1) :
         key \in Keys(obj2) /\ DeepEqual(obj1.f[key], obj2.f[key])

\* mutant: only the reference check, no comparison of the fields
shallowEqualByReference(obj1, obj2) == SameReference(obj1, obj2)

shallowEqual(obj1, obj2) ==
  IF SameReference(obj1, obj2) THEN TRUE
  ELSE IF obj1 = Undefined \/ obj2 = Undefined THEN FALSE
  ELSE IF obj1.arr # obj2.arr THEN FALSE
  ELSE IF obj1.arr
    THEN IF Length(obj1) # Length(obj2) THEN FALSE
         ELSE \A i \in 1 .. Length(obj1) :
                obj1.f[IndexKey[i]] = obj2.f[IndexKey[i]]
  ELSE IF Cardinality(Keys(obj1)) # Cardinality(Keys(obj2)) THEN FALSE
  ELSE \A key \in Keys(obj1) :
         key \in Keys(obj2) /\ obj1.f[key] = obj2.f[key]

----------------------------------------------------------------------------
(* Initializers and the closures they create *)

\* state => ({ count: state.count + n })
CountUpdater(n) == [kind |-> "fn", u |-> "add", n |-> n]
\* () => ({})
EmptyUpdater == [kind |-> "fn", u |-> "empty", n |-> 0]
\* an object passed as partial
ObjectPartial(obj) == [kind |-> "obj", o |-> obj]

\* The objects returned by createState
CounterInit == [count |-> Num(0)]
NamedInit == [count |-> Num(0), name |-> Num(0)]
ActionsInit == [count |-> Num(0), increment |-> Fn("increment"), add |-> Fn("add")]

Initializers == {CounterInit, NamedInit, ActionsInit}

\* The set(...) call made by the body of an action closure called with argument n
ActionBody(fn, n) ==
  IF fn.v = "increment" THEN CountUpdater(1) ELSE CountUpdater(n)

\* an array value.  Every array of the model is built by appending to
\* another, so two arrays with the same elements are the same array.
List(seq) == [t |-> "list", v |-> seq]

\* state => ({ users: [...state.users, user] })
AppendUpdater(user) == [kind |-> "fn", u |-> "append", n |-> user]

\* partial(state) for a function partial
ApplyUpdater(partial, st) ==
  IF partial.u = "empty" THEN Literal(EmptyFields)
  ELSE IF partial.u = "append"
       THEN Literal([users |-> List(Append(st.f["users"].v, partial.n))])
       ELSE Literal([count |-> Num(st.f["count"].v + partial.n)])

----------------------------------------------------------------------------
(* setState *)

\* mutant: the function partial is given the initial state object
ResolveWithInitialState(partial, st) ==
  IF partial.kind = "fn" THEN ApplyUpdater(partial, initialState)
  ELSE partial.o

\* var nextState = typeof partial === 'function' ? partial(state) : partial
Resolve(partial, st) ==
  IF partial.kind = "fn" THEN ApplyUpdater(partial, st) ELSE partial.o

\* mutant: the test for an empty object is missing
IsSkippedOnlyNullish(nextState) == nextState = Undefined

\* !nextState || (typeof nextState === 'object' && Object.keys(nextState).length === 0)
IsSkipped(nextState) ==
  nextState = Undefined \/ Cardinality(Keys(nextState)) = 0

\* mutant: replace is ignored
CommittedAlwaysMerge(st, nextState, replace) == objectAssign(st.f, nextState.f)

\* mutant: the merge is made in the wrong order
CommittedStateWins(st, nextState, replace) ==
  IF replace THEN objectAssign(EmptyFields, nextState.f)
  ELSE objectAssign(nextState.f, st.f)

\* replace ? objectAssign({}, nextState) : objectAssign({}, state, nextState)
Committed(st, nextState, replace) ==
  IF replace THEN objectAssign(EmptyFields, nextState.f)
  ELSE objectAssign(st.f, nextState.f)

\* mutant: the cached array is never rebuilt
StaleArray(ls, arr, sync) == arr

\* if (needsListenerSync) listenersArray = Array.from(listeners)
SyncedArray(ls, arr, sync) == IF sync THEN ls ELSE arr

\* mutant: the fields are assigned to the state object itself
StateAsTarget(id, fields) == [state EXCEPT !.f = fields]

\* objectAssign({}, ...): the target of the assignment is a new object
FreshTarget(id, fields) == NewObject(id, fields)

\* The body of setState up to the first listener call; frames are the calls
\* in progress it is made from, and log holds the earlier invocations of
\* function partials.
setState(frames, partial, replace, log) ==
  LET nextState == Resolve(partial, state) IN
  /\ updaterArgs' = IF partial.kind = "fn" THEN Append(log, state) ELSE log
  /\ IF IsSkipped(nextState) \/ shallowEqual(nextState, state)
     THEN /\ stack' = frames
          /\ UNCHANGED <<state, previousState, listenersArray,
                         needsListenerSync, nextId>>
     ELSE /\ nextId <= MaxObjs
          /\ previousState' = state
          /\ state' = FreshTarget(nextId, Committed(state, nextState, replace))
          /\ nextId' = nextId + 1
          /\ IF Len(listeners) > 0
             THEN /\ listenersArray' =
                       SyncedArray(listeners, listenersArray, needsListenerSync)
                  /\ needsListenerSync' = FALSE
                  /\ stack' = Append(frames, 1)
             ELSE /\ stack' = frames
                  /\ UNCHANGED <<listenersArray, needsListenerSync>>

\* mutant: the arguments are passed in the other order
InvocationSwapped ==
  [l |-> listenersArray[stack[Len(stack)]], s |-> previousState, p |-> state,
   d |-> Len(stack)]

\* the call listenersArray[i](state, previousState) of the loop at the top
\* of the stack, and the number of setState calls in progress
Invocation ==
  [l |-> listenersArray[stack[Len(stack)]], s |-> state, p |-> previousState,
   d |-> Len(stack)]

\* listenersArray[i](state, previousState), the listener returning normally
ListenerReturns ==
  /\ stack # <<>>
  /\ LET i == stack[Len(stack)] IN
     /\ i <= Len(listenersArray)
     /\ calls' = Append(calls, Invocation)
     /\ stack' = [stack EXCEPT ![Len(stack)] = i + 1]
  /\ UNCHANGED <<initialState, state, previousState, listeners, listenersArray,
                 needsListenerSync, api, unsubs, nextId, last, updaterArgs,
                 outcome, net>>

\* mutant: the call returns before the loop has ended
SetStateReturnsEarly ==
  /\ stack # <<>>
  /\ stack' = SubSeq(stack, 1, Len(stack) - 1)
  /\ UNCHANGED <<initialState, state, previousState, listeners, listenersArray,
                 needsListenerSync, api, unsubs, nextId, last, calls,
                 updaterArgs, outcome, net>>

\* the loop of a setState call ends and the call returns
SetStateReturns ==
  /\ stack # <<>>
  /\ stack[Len(stack)] > Len(listenersArray)
  /\ stack' = SubSeq(stack, 1, Len(stack) - 1)
  /\ UNCHANGED <<initialState, state, previousState, listeners, listenersArray,
                 needsListenerSync, api, unsubs, nextId, last, calls,
                 updaterArgs, outcome, net>>

----------------------------------------------------------------------------
(* create *)

\* mutant: every promoted field is bound to the closure of one field
PromotedOneClosure(init) ==
  LET fns == {k \in Keys(init) : init.f[k].t = "fn"} IN
  [key \in fns |-> init.f[CHOOSE k \in fns : TRUE]]

\* mutant: the typeof test is missing, every own field is promoted
PromotedEveryField(init) == init.f

\* for (var key in initialState)
\*   if (typeof initialState[key] === 'function') api[key] = initialState[key]
Promoted(init) ==
  [key \in {k \in Keys(init) : init.f[k].t = "fn"} |-> init.f[key]]

\* var api = { getState: ..., setState: setState, subscribe: ..., destroy: ... }
CoreApi ==
  [getState |-> Fn("api.getState"), setState |-> Fn("api.setState"),
   subscribe |-> Fn("api.subscribe"), destroy |-> Fn("api.destroy")]

\* the handle create returns: the core operations and, assigned after them,
\* the promoted fields
Handle == objectAssign(CoreApi, api)

NoPartial == ObjectPartial(Undefined)

Idle == stack = <<>>

\* the record of a write of the consumer: its arguments, and the state and
\* the listeners it found
Write(op, partial, replace, key, arg) ==
  [op |-> op, partial |-> partial, replace |-> replace, key |-> key,
   arg |-> arg, pre |-> state, preListeners |-> listeners]

\* the record of any other operation of the consumer
Operation(op, key) ==
  [op |-> op, partial |-> NoPartial, replace |-> FALSE, key |-> key,
   arg |-> 0, pre |-> Undefined, preListeners |-> <<>>]

\* var errorTemplate = { status: 0, statusText: '', response: '' }
ErrorTemplateInit == [status |-> 0, statusText |-> "", response |-> ""]

\* the request client before any request
\* ran: the requests whose then-callback has run, in the order they ran
NetInit == [errorTemplate |-> ErrorTemplateInit, requests |-> <<>>, ran |-> <<>>]

\* create with an initializer that returns an object with the given fields
InitWith(inits) ==
  /\ \E fields \in inits :
       /\ initialState = NewObject(1, fields)
       /\ state = NewObject(2, objectAssign(EmptyFields, fields))
       /\ api = Promoted(NewObject(1, fields))
       /\ last = Operation("create", "")
  /\ previousState = Undefined
  /\ listeners = <<>>
  /\ listenersArray = <<>>
  /\ needsListenerSync = TRUE
  /\ unsubs = [l \in Listener |-> "none"]
  /\ stack = <<>>
  /\ nextId = 3
  /\ calls = <<>>
  /\ updaterArgs = <<>>
  /\ outcome = "fulfilled"
  /\ net = NetInit

Init == InitWith(Initializers)

----------------------------------------------------------------------------
(* Operations of the consumer *)

\* every object with fields among DataKeys holding primitive values
FieldMaps ==
  UNION {[keys -> {Num(n) : n \in Values}] : keys \in SUBSET DataKeys}

\* the partials the consumer passes to setState
Partials ==
  {ObjectPartial(Literal(fields)) : fields \in FieldMaps}
    \cup {ObjectPartial(state), CountUpdater(1), EmptyUpdater}

\* a partial that sets a function-valued field
FunctionPartial == ObjectPartial(Literal([increment |-> Fn("reset")]))

\* the partials of SpecLifecycle
LifecyclePartials ==
  {ObjectPartial(Literal([count |-> Num(1)])), CountUpdater(1), FunctionPartial}

\* state.count + n is a number within the bound
CanCount(partial) ==
  (partial.kind = "fn" /\ partial.u = "add") =>
    /\ "count" \in Keys(state)
    /\ state.f["count"].t = "num"
    /\ state.f["count"].v + partial.n <= MaxVal

\* mutant: the handle is scanned again after every write
SetStateRescanning(partial, replace) ==
  /\ Idle
  /\ CanCount(partial)
  /\ last' = Write("setState", partial, replace, "", 0)
  /\ calls' = <<>>
  /\ setState(stack, partial, replace, <<>>)
  /\ api' = objectAssign(api, Promoted(state'))
  /\ outcome' = "fulfilled"
  /\ UNCHANGED <<initialState, listeners, unsubs, net>>

\* store.setState(partial, replace)
SetState(partial, replace) ==
  /\ Idle
  /\ CanCount(partial)
  /\ last' = Write("setState", partial, replace, "", 0)
  /\ calls' = <<>>
  /\ setState(stack, partial, replace, <<>>)
  /\ outcome' = "fulfilled"
  /\ UNCHANGED <<initialState, listeners, api, unsubs, net>>

\* store[key](n) for a promoted action: the closure calls set(...)
CallAction(key, n) ==
  /\ Idle
  /\ key \in DOMAIN api
  /\ CanCount(ActionBody(api[key], n))
  /\ last' = Write("action", ActionBody(api[key], n), FALSE, key, n)
  /\ calls' = <<>>
  /\ setState(stack, ActionBody(api[key], n), FALSE, <<>>)
  /\ outcome' = "fulfilled"
  /\ UNCHANGED <<initialState, listeners, api, unsubs, net>>

\* mutant: every add appends, the registrations are a list with duplicates
SetAddDuplicate(ls, l) == Append(ls, l)

\* listeners.add(listener)
SetAdd(ls, l) ==
  IF \E i \in 1 .. Len(ls) : ls[i] = l THEN ls ELSE Append(ls, l)

\* listeners.delete(listener)
SetDelete(ls, l) == SelectSeq(ls, LAMBDA x : x # l)

\* mutant: a deletion does not mark the cached array stale
SyncAfterDeleteMissing(deleted, sync) == sync

\* if (deleted) needsListenerSync = true
SyncAfterDelete(deleted, sync) == deleted \/ sync

\* listeners.has(listener)
SetHas(ls, l) == \E i \in 1 .. Len(ls) : ls[i] = l

\* l was registered, its unsubscribe function has not been called and it is
\* no longer registered: destroy() removed it
Destroyed(l) == unsubs[l] = "held" /\ ~SetHas(listeners, l)

\* the consumer operations that end without touching a promise
Finish(op, key) ==
  /\ last' = Operation(op, key)
  /\ calls' = <<>>
  /\ updaterArgs' = <<>>
  /\ outcome' = "fulfilled"

\* store.subscribe(listener) with a function; it is recorded as
\* "resubscribe" when the consumer still holds an unsubscribe function of an
\* earlier registration of l that is gone
Subscribe(l) ==
  /\ Idle
  /\ listeners' = SetAdd(listeners, l)
  /\ needsListenerSync' = TRUE
  /\ unsubs' = [unsubs EXCEPT ![l] = "held"]
  /\ Finish(IF unsubs[l] = "called" \/ Destroyed(l) THEN "resubscribe"
            ELSE "subscribe", l)
  /\ UNCHANGED <<initialState, state, previousState, listenersArray, api,
                 stack, nextId, net>>

\* mutant: a non-callable is registered like a listener
SubscribeUnchecked ==
  /\ Idle
  /\ listeners' = SetAdd(listeners, "notCallable")
  /\ needsListenerSync' = TRUE
  /\ Finish("subscribeNonCallable", "")
  /\ UNCHANGED <<initialState, state, previousState, listenersArray, api,
                 unsubs, stack, nextId, net>>

\* store.subscribe(x) with x not a function: console.warn, and
\* return function() { return false; }
SubscribeNonCallable ==
  /\ Idle
  /\ Finish("subscribeNonCallable", "")
  /\ UNCHANGED <<initialState, state, previousState, listeners, listenersArray,
                 needsListenerSync, api, unsubs, stack, nextId, net>>

\* the function returned for a non-callable, called right after
NoopUnsubscribe ==
  /\ Idle
  /\ last.op \in {"subscribeNonCallable", "noopUnsubscribe"}
  /\ Finish("noopUnsubscribe", "")
  /\ UNCHANGED <<initialState, state, previousState, listeners, listenersArray,
                 needsListenerSync, api, unsubs, stack, nextId, net>>

\* the function returned by createUnsubscribe(listener)
Unsubscribe(l) ==
  /\ Idle
  /\ unsubs[l] # "none"
  /\ listeners' = SetDelete(listeners, l)
  /\ needsListenerSync' = SyncAfterDelete(SetHas(listeners, l), needsListenerSync)
  /\ unsubs' = [unsubs EXCEPT ![l] = "called"]
  /\ Finish("unsubscribe", l)
  /\ UNCHANGED <<initialState, state, previousState, listenersArray, api,
                 stack, nextId, net>>

\* the function returned by an earlier subscribe(l), called right after l has
\* been subscribed again: the same closure over l
UnsubscribeEarlier(l) ==
  /\ Idle
  /\ last.op = "resubscribe"
  /\ last.key = l
  /\ listeners' = SetDelete(listeners, l)
  /\ needsListenerSync' = SyncAfterDelete(SetHas(listeners, l), needsListenerSync)
  /\ unsubs' = [unsubs EXCEPT ![l] = "called"]
  /\ Finish("unsubscribeEarlier", l)
  /\ UNCHANGED <<initialState, state, previousState, listenersArray, api,
                 stack, nextId, net>>

\* mutant: the cached array is kept
destroyKeepsArray ==
  /\ listeners' = <<>>
  /\ listenersArray' = listenersArray
  /\ needsListenerSync' = TRUE

\* the body of destroy
destroy ==
  /\ listeners' = <<>>
  /\ listenersArray' = <<>>
  /\ needsListenerSync' = TRUE

\* mutant: destroy also drops the state
DestroyDropsState ==
  /\ Idle
  /\ destroy
  /\ state' = Undefined
  /\ Finish("destroy", "")
  /\ UNCHANGED <<initialState, previousState, api, unsubs, stack, nextId, net>>

\* store.destroy()
Destroy ==
  /\ Idle
  /\ destroy
  /\ Finish("destroy", "")
  /\ UNCHANGED <<initialState, state, previousState, api, unsubs, stack,
                 nextId, net>>

Next ==
  \/ \E partial \in Partials, replace \in BOOLEAN : SetState(partial, replace)
  \/ \E key \in {"increment", "add"}, n \in 1 .. MaxVal : CallAction(key, n)
  \/ \E l \in Listener : Subscribe(l)
  \/ \E l \in Listener : Unsubscribe(l)
  \/ Destroy
  \/ ListenerReturns
  \/ SetStateReturns

Spec == Init /\ [][Next]_vars

\* mutant: a plain function, an exception leaves the call as a throw
SetStateFailureSync == "thrown"

\* var setState = async function(partial, replace): an exception in the body
\* rejects the promise the call returned, the call itself does not throw
SetStateFailure == "rejected"

\* listenersArray[i](state, previousState), the listener throwing: there is
\* no try in the loop, the exception ends the setState call
ListenerThrows ==
  /\ stack # <<>>
  /\ LET i == stack[Len(stack)] IN
     /\ i <= Len(listenersArray)
     /\ calls' = Append(calls, Invocation)
  /\ stack' = SubSeq(stack, 1, Len(stack) - 1)
  /\ outcome' = IF Len(stack) = 1 THEN SetStateFailure ELSE outcome
  /\ UNCHANGED <<initialState, state, previousState, listeners, listenersArray,
                 needsListenerSync, api, unsubs, nextId, last, updaterArgs,
                 net>>

\* listenersArray[i](state, previousState), the listener calling
\* store.destroy() and returning
ListenerDestroys ==
  /\ stack # <<>>
  /\ LET i == stack[Len(stack)] IN
     /\ i <= Len(listenersArray)
     /\ calls' = Append(calls, Invocation)
     /\ stack' = [stack EXCEPT ![Len(stack)] = i + 1]
  /\ destroy
  /\ UNCHANGED <<initialState, state, previousState, api, unsubs, nextId, last,
                 updaterArgs, outcome, net>>

NextLifecycle ==
  \/ \E partial \in LifecyclePartials, replace \in BOOLEAN :
       SetState(partial, replace)
  \/ \E key \in {"increment", "add"}, n \in 1 .. MaxVal : CallAction(key, n)
  \/ \E l \in Listener : Subscribe(l)
  \/ SubscribeNonCallable
  \/ NoopUnsubscribe
  \/ \E l \in Listener : Unsubscribe(l)
  \/ \E l \in Listener : UnsubscribeEarlier(l)
  \/ Destroy
  \/ ListenerReturns
  \/ ListenerThrows
  \/ ListenerDestroys
  \/ SetStateReturns

SpecLifecycle == Init /\ [][NextLifecycle]_vars

\* the partials a listener passes to setState
ReentrantPartials == {ObjectPartial(Literal([count |-> Num(1)])), CountUpdater(1)}

\* listenersArray[i](state, previousState), the listener calling
\* store.setState(partial) and returning when that call has returned
ListenerSetsState(partial) ==
  /\ stack # <<>>
  /\ LET i == stack[Len(stack)] IN
     /\ i <= Len(listenersArray)
     /\ CanCount(partial)
     /\ calls' = Append(calls, Invocation)
     /\ setState([stack EXCEPT ![Len(stack)] = i + 1], partial, FALSE,
                 updaterArgs)
  /\ UNCHANGED <<initialState, listeners, api, unsubs, last, outcome, net>>

NextReentrant ==
  \/ \E partial \in LifecyclePartials, replace \in BOOLEAN :
       SetState(partial, replace)
  \/ \E l \in Listener : Subscribe(l)
  \/ \E l \in Listener : Unsubscribe(l)
  \/ ListenerReturns
  \/ \E partial \in ReentrantPartials : ListenerSetsState(partial)
  \/ SetStateReturns

SpecReentrant == Init /\ [][NextReentrant]_vars

----------------------------------------------------------------------------
(* ajax *)

MaxRequests == 2

\* the values the consumer gives the fields of an options object
OptionValue ==
  [url |-> "/users", method |-> "post", data |-> [t |-> "obj", v |-> "Ann"]]

\* the options objects: every subset of url, method and data
RequestOptions ==
  {[key \in keys |-> OptionValue[key]] : keys \in SUBSET {"url", "method", "data"}}

\* the values of options.data: an object, a string, the number 0
DataValues ==
  {[t |-> "obj", v |-> "Ann"], [t |-> "str", v |-> "name=Ann"],
   [t |-> "num", v |-> 0]}

\* the values of options.headers: no header, or a Content-Type
HeaderMaps ==
  {[name \in {} |-> ""]}
    \cup {[name \in {"Content-Type"} |-> value] :
            value \in {"application/json", "text/plain"}}

\* the options objects with a url: the method, the data and the headers are
\* absent or any of the values above
EncodingOptions ==
  {[key \in {"url"} \cup keys |->
      CASE key = "url" -> "/users"
        [] key = "method" -> method
        [] key = "data" -> data
        [] key = "headers" -> headers] :
     keys \in SUBSET {"method", "data", "headers"},
     method \in {"head", "post"}, data \in DataValues, headers \in HeaderMaps}

\* the responses of the server: xhr.status and xhr.responseText
Statuses == {200, 299, 300, 404}
ResponseTexts == {"", " ", "{\"a\":1}", "oops"}

\* options[key], undefined when the field is absent
Option(options, key) ==
  IF key \in DOMAIN options THEN options[key] ELSE "undefined"

\* String.prototype.toUpperCase on the method names in use
toUpperCase(str) ==
  CASE str = "post" -> "POST"
    [] str = "get" -> "GET"
    [] str = "head" -> "HEAD"
    [] OTHER -> str

\* String.prototype.trim on the response texts in use
trim(str) == IF str = " " THEN "" ELSE str

\* JSON.parse on the response texts in use: the value, or a SyntaxError
JSONparse(str) ==
  IF str = "{\"a\":1}" THEN [t |-> "json", v |-> [a |-> 1]]
  ELSE [t |-> "SyntaxError", v |-> str]

\* the reason phrase the host gives xhr.statusText
StatusText(status) ==
  CASE status = 200 -> "OK"
    [] status = 300 -> "Multiple Choices"
    [] status = 404 -> "Not Found"
    [] OTHER -> ""

\* (options.method || 'GET').toUpperCase()
Method(options) ==
  IF "method" \in DOMAIN options THEN toUpperCase(options["method"]) ELSE "GET"

\* !!options.data: undefined, 0 and the empty string are falsy
hasData(options) ==
  /\ "data" \in DOMAIN options
  /\ options["data"].t # "undefined"
  /\ options["data"] # [t |-> "num", v |-> 0]
  /\ options["data"] # [t |-> "str", v |-> ""]

\* var headers = options.headers, the empty mapping when there is none
Headers(options) ==
  IF "headers" \in DOMAIN options THEN options["headers"]
  ELSE [name \in {} |-> ""]

\* headers && headers[contentTypeHeader]
contentType(options) ==
  IF "Content-Type" \in DOMAIN Headers(options)
  THEN Headers(options)["Content-Type"] ELSE "undefined"

\* contentType.includes('json') on the header values in use
includesJson(str) == str = "application/json"

\* typeof data === 'object' && (!contentType || contentType.includes('json'))
Stringified(options) ==
  /\ options["data"].t = "obj"
  /\ contentType(options) = "undefined" \/ includesJson(contentType(options))

\* the argument of xhr.send: nothing for GET, HEAD or falsy data, the JSON
\* text of an object, the data otherwise
SentBody(options) ==
  IF Method(options) \in {"GET", "HEAD"} \/ ~hasData(options)
  THEN [t |-> "none", v |-> ""]
  ELSE IF Stringified(options)
       THEN [t |-> "JSON.stringify", v |-> options["data"].v]
       ELSE options["data"]

\* the setRequestHeader calls: one for every own field of options.headers,
\* and the Content-Type added for a serialized object that had none
SentHeaders(options) ==
  {[name |-> name, value |-> Headers(options)[name]] :
     name \in DOMAIN Headers(options)}
    \cup (IF /\ SentBody(options).t = "JSON.stringify"
             /\ contentType(options) = "undefined"
          THEN {[name |-> "Content-Type", value |-> "application/json"]}
          ELSE {})

\* new XMLHttpRequest(), xhr.open(method, options.url, true), the headers
\* and xhr.send(data)
Sent(options) ==
  [opened |-> TRUE, method |-> Method(options), url |-> options["url"],
   headers |-> SentHeaders(options), body |-> SentBody(options)]

\* no XMLHttpRequest has been constructed
NotSent ==
  [opened |-> FALSE, method |-> "", url |-> "", headers |-> {},
   body |-> [t |-> "none", v |-> ""]]

Pending == [state |-> "pending", value |-> [t |-> "none", v |-> ""]]
Resolved(value) == [state |-> "fulfilled", value |-> value]
Rejected(value) == [state |-> "rejected", value |-> value]

\* no handler of the XMLHttpRequest has run
NoEvent == [type |-> "none", status |-> 0, responseText |-> ""]

\* the body of ajax, called through the function fn with the arguments
\* args.  ajax is an async function: its call returns a promise whatever its
\* body does, and the throw of a missing url rejects it
ajax(fn, args, options) ==
  net' = [net EXCEPT !.requests = Append(@,
    IF Option(options, "url") \in {"undefined", ""}
    THEN [fn |-> fn, args |-> args, options |-> options, call |-> "returned",
          xhr |-> NotSent, event |-> NoEvent,
          promise |-> Rejected([t |-> "Error", v |-> "URL is required"])]
    ELSE [fn |-> fn, args |-> args, options |-> options, call |-> "returned",
          xhr |-> Sent(options), event |-> NoEvent, promise |-> Pending])]

\* the arguments of a call of request: there is only the options object
NoArgs == [url |-> "", data |-> [t |-> "undefined", v |-> ""]]

\* MiniStore.request(options)
Request(options) ==
  /\ Len(net.requests) < MaxRequests
  /\ ajax("request", NoArgs, options)
  /\ UNCHANGED <<initialState, state, previousState, listeners, listenersArray,
                 needsListenerSync, api, unsubs, stack, nextId, last, calls,
                 updaterArgs, outcome>>

\* the request i is in flight
InFlight(i) ==
  /\ i \in DOMAIN net.requests
  /\ net.requests[i].promise = Pending

\* mutant: the template itself is passed to reject
errorTemplateItself(template) == [t |-> "errorTemplate", v |-> ErrorTemplateInit]

\* Object.assign({}, errorTemplate): a new object with the template's fields
errorTemplateCopy(template) == [t |-> "error", v |-> template]

\* the object a rejected promise holds, as its reader finds it
FailureValue(i) ==
  IF net.requests[i].promise.value.t = "errorTemplate" THEN net.errorTemplate
  ELSE net.requests[i].promise.value.v

\* mutant: the failure is passed to resolve
RejectResolves(i, status, statusText, response) ==
  LET template == [status |-> status, statusText |-> statusText,
                   response |-> response]
  IN [net EXCEPT !.errorTemplate = template,
                 !.requests[i].promise = Resolved(errorTemplateCopy(template))]

\* errorTemplate.status = ...; errorTemplate.statusText = ...;
\* errorTemplate.response = ...; reject(Object.assign({}, errorTemplate))
Reject(i, status, statusText, response) ==
  LET template == [status |-> status, statusText |-> statusText,
                   response |-> response]
  IN [net EXCEPT !.errorTemplate = template,
                 !.requests[i].promise = Rejected(errorTemplateCopy(template))]

\* mutant: there is no catch around JSON.parse
SuccessWithoutCatch(i, responseText) ==
  [net EXCEPT !.requests[i].promise =
     IF responseText = "" \/ trim(responseText) = ""
     THEN Resolved([t |-> "text", v |-> responseText])
     ELSE IF JSONparse(responseText).t = "json"
          THEN Resolved(JSONparse(responseText))
          ELSE Rejected(JSONparse(responseText))]

\* the branch of onload for a status from 200 to 299: an empty or blank
\* text as it is, else the parsed value, else the text
Success(i, responseText) ==
  [net EXCEPT !.requests[i].promise =
     IF responseText = "" \/ trim(responseText) = ""
     THEN Resolved([t |-> "text", v |-> responseText])
     ELSE IF JSONparse(responseText).t = "json"
          THEN Resolved(JSONparse(responseText))
          ELSE Resolved([t |-> "text", v |-> responseText])]

\* the handler type has run on request i of the client settled
Handled(settled, i, type, status, responseText) ==
  [settled EXCEPT !.requests[i].event =
     [type |-> type, status |-> status, responseText |-> responseText]]

\* xhr.onload
Load(i, status, responseText) ==
  /\ InFlight(i)
  /\ net' = Handled(IF status >= 200 /\ status < 300
                    THEN Success(i, responseText)
                    ELSE Reject(i, status, StatusText(status), responseText),
                    i, "load", status, responseText)
  /\ UNCHANGED <<initialState, state, previousState, listeners, listenersArray,
                 needsListenerSync, api, unsubs, stack, nextId, last, calls,
                 updaterArgs, outcome>>

\* xhr.onerror: the host reports status 0 and an empty responseText
NetworkError(i) ==
  /\ InFlight(i)
  /\ net' = Handled(Reject(i, 0, "Network Error", ""), i, "error", 0, "")
  /\ UNCHANGED <<initialState, state, previousState, listeners, listenersArray,
                 needsListenerSync, api, unsubs, stack, nextId, last, calls,
                 updaterArgs, outcome>>

\* xhr.ontimeout: the host reports status 0 and an empty responseText
Timeout(i) ==
  /\ InFlight(i)
  /\ net' = Handled(Reject(i, 0, "Timeout Error", ""), i, "timeout", 0, "")
  /\ UNCHANGED <<initialState, state, previousState, listeners, listenersArray,
                 needsListenerSync, api, unsubs, stack, nextId, last, calls,
                 updaterArgs, outcome>>

NextRequest ==
  \/ \E options \in RequestOptions : Request(options)
  \/ \E i \in 1 .. MaxRequests, status \in Statuses,
         responseText \in ResponseTexts : Load(i, status, responseText)
  \/ \E i \in 1 .. MaxRequests : NetworkError(i)
  \/ \E i \in 1 .. MaxRequests : Timeout(i)

\* the request client next to a container that is left alone
InitRequest == Init /\ initialState.f = CounterInit

SpecRequest == InitRequest /\ [][NextRequest]_vars

\* var HTTP_METHODS = { GET: { method: 'GET' }, POST: { method: 'POST' }, ... }
HTTP_METHODS ==
  [get |-> [method |-> "GET"], post |-> [method |-> "POST"],
   put |-> [method |-> "PUT"], delete |-> [method |-> "DELETE"],
   patch |-> [method |-> "PATCH"]]

\* the data argument of a shortcut: left out, or an object
DataArguments == {[t |-> "undefined", v |-> ""], [t |-> "obj", v |-> "Bob"]}

\* the options ajax is called with by a shortcut:
\* objectAssign({}, HTTP_METHODS.GET, options, { url }) for get and delete,
\* objectAssign({}, HTTP_METHODS.POST, { data }, options, { url }) for post,
\* put and patch
Merged(fn, url, data, options) ==
  IF fn \in {"get", "delete"}
  THEN objectAssign(objectAssign(HTTP_METHODS[fn], options), [url |-> url])
  ELSE objectAssign(objectAssign(objectAssign(HTTP_METHODS[fn],
                                              [data |-> data]),
                                 options),
                    [url |-> url])

\* MiniStore.get(url, options), MiniStore.delete(url, options),
\* MiniStore.post(url, data, options), and put and patch like post, as the
\* only request
Shortcut(fn, url, data, options) ==
  /\ net.requests = <<>>
  /\ fn \in {"get", "delete"} => data.t = "undefined"
  /\ ajax(fn, [url |-> url, data |-> data], Merged(fn, url, data, options))
  /\ UNCHANGED <<initialState, state, previousState, listeners, listenersArray,
                 needsListenerSync, api, unsubs, stack, nextId, last, calls,
                 updaterArgs, outcome>>

\* MiniStore.request(options) as the only request
RequestOnce(options) ==
  /\ net.requests = <<>>
  /\ Request(options)

NextOneRequest ==
  \/ \E options \in EncodingOptions : RequestOnce(options)
  \/ \E fn \in DOMAIN HTTP_METHODS, data \in DataArguments,
         options \in RequestOptions : Shortcut(fn, "/items", data, options)
  \/ \E status \in Statuses, responseText \in ResponseTexts :
       Load(1, status, responseText)
  \/ NetworkError(1)
  \/ Timeout(1)

SpecOneRequest == InitRequest /\ [][NextOneRequest]_vars

\* the users the consumer posts, one request each
Users == {"Ann", "Bob", "Cy"}

\* create((set) => ({ users: [] }))
UsersInit == [users |-> List(<<>>)]

\* the user request i posts
Posted(i) == net.requests[i].args.data.v

\* the requests whose promise is fulfilled and whose then-callback has yet
\* to run
Fulfilled ==
  {i \in DOMAIN net.requests :
     /\ net.requests[i].promise.state = "fulfilled"
     /\ \A k \in DOMAIN net.ran : net.ran[k] # i}

\* MiniStore.post(url, user).then(newUser =>
\*   set(state => ({ users: [...state.users, user] })))
\* up to the return of post: the request is in flight
AddUser(user) ==
  /\ Idle
  /\ Len(net.requests) < MaxRequests
  /\ \A i \in DOMAIN net.requests : Posted(i) # user
  /\ LET data == [t |-> "obj", v |-> user] IN
       ajax("post", [url |-> "/users", data |-> data],
            Merged("post", "/users", data, [key \in {} |-> ""]))
  /\ UNCHANGED <<initialState, state, previousState, listeners, listenersArray,
                 needsListenerSync, api, unsubs, stack, nextId, last, calls,
                 updaterArgs, outcome>>

\* the response of request i arrives: a task of the event loop, which starts
\* when no call is in progress and no then-callback is waiting
Response(i) ==
  /\ Idle
  /\ Fulfilled = {}
  /\ \/ Load(i, 200, "{\"a\":1}")
     \/ NetworkError(i)

\* the then-callback of request i: set(state => ({ users: [...] }))
Then(i) ==
  /\ Idle
  /\ i \in Fulfilled
  /\ last' = Write("then", AppendUpdater(Posted(i)), FALSE, "", i)
  /\ calls' = <<>>
  /\ setState(stack, AppendUpdater(Posted(i)), FALSE, <<>>)
  /\ outcome' = "fulfilled"
  /\ net' = [net EXCEPT !.ran = Append(@, i)]
  /\ UNCHANGED <<initialState, listeners, api, unsubs>>

NextAsync ==
  \/ \E l \in Listener : Subscribe(l)
  \/ \E user \in Users : AddUser(user)
  \/ \E i \in 1 .. MaxRequests : Response(i)
  \/ \E i \in 1 .. MaxRequests : Then(i)
  \/ ListenerReturns
  \/ SetStateReturns

SpecAsync == InitWith({UsersInit}) /\ [][NextAsync]_vars

----------------------------------------------------------------------------
(* Properties *)

\* the consumer's most recent operation is a write (setState or an action)
IsWrite == last.op \in {"setState", "action"}

\* that write has returned to the consumer
Returned == IsWrite /\ Idle

\* that write committed: getState() is another object than before it
CommittedWrite == IsWrite /\ state.id # last.pre.id

\* getState() returns the reference it returned before the write, and no
\* listener has been or is being invoked
NoOp == state = last.pre /\ calls = <<>> /\ Idle

\* C1: setState({}) and setState(() => ({})), with replace false or true,
\* leave getState() returning the same reference and invoke no listener.
C1_EmptyWriteIsNoOp ==
  (/\ last.op = "setState"
   /\ last.partial \in {ObjectPartial(Literal(EmptyFields)), EmptyUpdater})
    => NoOp

C1_Witness ==
  /\ last.op = "setState"
  /\ last.partial = EmptyUpdater
  /\ last.replace
  /\ Len(listeners) = 2
  /\ state.id > 2

\* the same own fields with strictly equal values
SameFields(obj1, obj2) == obj1.f = obj2.f

\* C2: setState(S) with S shallow-equal to the current state invokes no
\* listener and leaves getState() returning the same reference.
C2_ShallowEqualWriteIsNoOp ==
  (/\ last.op = "setState"
   /\ last.partial.kind = "obj"
   /\ SameFields(last.partial.o, last.pre))
    => NoOp

C2_Witness ==
  /\ last.op = "setState"
  /\ last.partial.kind = "obj"
  /\ last.partial.o.id # last.pre.id
  /\ SameFields(last.partial.o, last.pre)
  /\ Cardinality(Keys(last.pre)) = 2
  /\ Len(listeners) = 2

\* every field of the candidate already holds a strictly equal value in obj
AlreadyHolds(candidate, obj) ==
  \A key \in Keys(candidate) :
    key \in Keys(obj) /\ obj.f[key] = candidate.f[key]

\* C3: a merge write whose non-empty candidate names only fields that
\* already hold strictly equal values (possibly a strict subset of the
\* state's fields) invokes no listener and does not replace the state.
C3_UnchangedMergeIsNoOp ==
  (/\ last.op = "setState"
   /\ last.partial.kind = "obj"
   /\ ~last.replace
   /\ Keys(last.partial.o) # {}
   /\ AlreadyHolds(last.partial.o, last.pre))
    => NoOp

\* C4: setState(P) immediately followed by setState(P), P an object: the
\* second call invokes no listener.
C4_SamePartialTwiceNotifiesOnce ==
  [][(/\ Idle
      /\ last.op = "setState"
      /\ last.partial.kind = "obj"
      /\ last'.op = "setState"
      /\ last'.partial = last.partial
      /\ last'.replace = last.replace)
       => stack' = <<>>]_vars

\* the listeners of a sequence, as a set
Range(seq) == {seq[i] : i \in DOMAIN seq}

\* the number of invocations of listener l during the operation
Invocations(l) == Cardinality({i \in DOMAIN calls : calls[i].l = l})

\* C5: when a committing write made by the consumer returns, every listener
\* subscribed at the time of the call has been invoked exactly once, with
\* the object getState() now returns and the object it returned before.
C5_EachListenerOnceWithNewAndOld ==
  (Returned /\ CommittedWrite) =>
    /\ \A l \in Range(last.preListeners) : Invocations(l) = 1
    /\ \A l \in Listener \ Range(last.preListeners) : Invocations(l) = 0
    /\ \A i \in DOMAIN calls : calls[i].s = state /\ calls[i].p = last.pre

C5_Witness ==
  /\ Returned
  /\ CommittedWrite
  /\ Len(last.preListeners) = 2
  /\ Len(calls) = 2
  /\ last.pre.id > 2

\* C6: a listener whose unsubscribe function has been called is invoked by
\* no write until it is subscribed again, and the unsubscribe function can
\* be called again.
C6_UnsubscribedIsNotInvoked ==
  /\ \A i \in DOMAIN calls : unsubs[calls[i].l] # "called"
  /\ \A l \in Listener :
       (Idle /\ unsubs[l] = "called") => ENABLED Unsubscribe(l)

C6_Witness ==
  /\ Returned
  /\ CommittedWrite
  /\ unsubs["L1"] = "called"
  /\ calls # <<>>
  /\ listenersArray = <<"L2">>

\* the object the write is made with: the partial, or the function's result
Candidate ==
  IF last.partial.kind = "obj" THEN last.partial.o
  ELSE ApplyUpdater(last.partial, last.pre)

\* C7: after a replace write with a non-empty P that is not shallow-equal to
\* the state, getState() has exactly the fields of P with P's values, and so
\* has the state passed to every listener.
C7_ReplaceDiscardsPriorFields ==
  (/\ IsWrite
   /\ last.replace
   /\ Keys(Candidate) # {}
   /\ ~SameFields(Candidate, last.pre))
    => /\ state.f = Candidate.f
       /\ state.id # last.pre.id
       /\ \A i \in DOMAIN calls : calls[i].s.f = Candidate.f

C7_Witness ==
  /\ Returned
  /\ last.replace
  /\ "increment" \in Keys(last.pre)
  /\ Keys(state) = {"name"}
  /\ calls # <<>>

\* obj has P's value for every field of P, the value of pre for every other
\* field of pre, and no other field
IsMerge(obj, pre, P) ==
  /\ Keys(obj) = Keys(pre) \cup Keys(P)
  /\ \A key \in Keys(P) : obj.f[key] = P.f[key]
  /\ \A key \in Keys(pre) \ Keys(P) : obj.f[key] = pre.f[key]

\* C8: during and after a merge write, getState() is either the state before
\* it or the complete merge of P onto it, and every listener is passed the
\* complete merge.
C8_MergeIsFieldWiseAndAtomic ==
  (IsWrite /\ ~last.replace) =>
    /\ state = last.pre \/ IsMerge(state, last.pre, Candidate)
    /\ \A i \in DOMAIN calls :
         calls[i].s = state /\ IsMerge(calls[i].s, last.pre, Candidate)

C8_Witness ==
  /\ Returned
  /\ CommittedWrite
  /\ ~last.replace
  /\ Keys(Candidate) = {"count"}
  /\ Keys(last.pre) = {"count", "name"}
  /\ state.f["count"] # last.pre.f["count"]
  /\ Len(calls) = 2

\* C9: a function partial is invoked exactly once, with the state current at
\* the call, and the write is the write setState(result, replace) makes.
C9_FunctionPartialCalledOnce ==
  (IsWrite /\ last.partial.kind = "fn") =>
    LET result == ApplyUpdater(last.partial, last.pre)
        noop == IsSkipped(result) \/ shallowEqual(result, last.pre)
    IN /\ updaterArgs = <<last.pre>>
       /\ noop => NoOp
       /\ ~noop => /\ state.id # last.pre.id
                   /\ state.f = Committed(last.pre, result, last.replace)
                   /\ Returned => Len(calls) = Len(last.preListeners)

C9_Witness ==
  /\ Returned
  /\ last.op = "setState"
  /\ last.partial = CountUpdater(1)
  /\ last.pre.f["count"] = Num(1)
  /\ state.f["count"] = Num(2)
  /\ calls # <<>>

\* C10: every promoted action is the closure of the initial state object;
\* increment() raises count by exactly 1 and add(n) by exactly n, leaves the
\* other fields as they were and notifies every listener once.
C10_PromotedActionIsTheClosure ==
  /\ \A key \in DOMAIN api : api[key] = initialState.f[key]
  /\ (Returned /\ last.op = "action") =>
       /\ state.f["count"] =
            Num(last.pre.f["count"].v
                  + (IF last.key = "increment" THEN 1 ELSE last.arg))
       /\ \A key \in Keys(last.pre) \ {"count"} :
            key \in Keys(state) /\ state.f[key] = last.pre.f[key]
       /\ Keys(state) = Keys(last.pre)
       /\ \A l \in Range(last.preListeners) : Invocations(l) = 1

C10_Witness ==
  /\ Returned
  /\ last.op = "action"
  /\ last.key = "add"
  /\ last.arg = 2
  /\ state.f["count"] = Num(2)
  /\ Len(calls) = 2

\* the own fields of the initial state object whose value is callable
CallableFields == {key \in Keys(initialState) : initialState.f[key].t = "fn"}

\* C11: the handle has getState, setState, subscribe, destroy and exactly
\* the callable own fields of the initial state object; a non-callable field
\* is not on the handle and is a field of getState() when create returns.
C11_HandleHasExactlyTheCallableFields ==
  /\ DOMAIN Handle =
       {"getState", "setState", "subscribe", "destroy"} \cup CallableFields
  /\ \A key \in Keys(initialState) \ CallableFields :
       /\ key \notin DOMAIN Handle
       /\ last.op = "create" => state.f[key] = initialState.f[key]

C11_Witness ==
  /\ last.op = "create"
  /\ CallableFields = {"increment", "add"}
  /\ "count" \in Keys(state)

\* C12: no operation changes the handle: it keeps the fields and the
\* function values it had when create returned, whatever function-valued
\* fields later writes add to, replace in or remove from the state.
C12_HandleIsFrozen == [][Handle' = Handle]_vars

C12_Witness ==
  /\ Returned
  /\ state.f = [increment |-> Fn("reset")]
  /\ "add" \in DOMAIN Handle
  /\ "increment" \in DOMAIN Handle
  /\ Handle["increment"] = Fn("increment")

\* a listener has just been invoked
ListenerInvoked == Len(calls') = Len(calls) + 1

\* C13: a listener that destroy() removed is not invoked until it is
\* subscribed again, by a later write or by the batch in progress when a
\* listener of that batch called destroy().
C13_DestroyedIsNotInvoked ==
  [][ListenerInvoked => ~Destroyed(calls'[Len(calls')].l)]_vars

C13_Witness ==
  /\ Returned
  /\ CommittedWrite
  /\ outcome = "fulfilled"
  /\ last.preListeners = <<"L1", "L2">>
  /\ Len(calls) = 1
  /\ Destroyed("L1")
  /\ Destroyed("L2")

\* the write the consumer is making has a non-empty candidate that differs
\* from the state in some field
ChangingWrite ==
  /\ IsWrite'
  /\ Keys(Candidate') # {}
  /\ ~SameFields(Candidate', state)

\* C14: destroy() leaves the reference getState() returns and the handle as
\* they were, and a changing write made right after destroy() commits:
\* getState() returns a new object holding the candidate's fields.
C14_DestroyChangesOnlyTheRegistry ==
  [][(last'.op = "destroy" =>
        (state' = state /\ Handle' = Handle /\ listeners' = <<>>))
     /\ ((last.op = "destroy" /\ ChangingWrite) =>
          (/\ state'.id # state.id
           /\ IF last'.replace THEN state'.f = Candidate'.f
              ELSE IsMerge(state', state, Candidate')))]_vars

C14_Witness ==
  /\ Returned
  /\ CommittedWrite
  /\ Destroyed("L1")
  /\ Destroyed("L2")
  /\ listeners = <<>>
  /\ calls = <<>>
  /\ "increment" \in DOMAIN Handle
  /\ "count" \in Keys(state) \cap Keys(last.pre)
  /\ state.f["count"] # last.pre.f["count"]

\* destroy() has been called: it removed a listener that is still away
AfterDestroy == \E l \in Listener : Destroyed(l)

\* C15: when a committing write returns on a container that has been
\* destroyed, every listener subscribed since has been invoked exactly once
\* with the object getState() now returns and the one it returned before.
C15_SubscribedAfterDestroyIsNotified ==
  (Returned /\ CommittedWrite /\ AfterDestroy) =>
    /\ \A l \in Range(last.preListeners) : Invocations(l) = 1
    /\ \A i \in DOMAIN calls :
         /\ calls[i].l \in Range(last.preListeners)
         /\ calls[i].s = state
         /\ calls[i].p = last.pre

C15_Witness ==
  /\ Returned
  /\ CommittedWrite
  /\ Destroyed("L1")
  /\ last.preListeners = <<"L2">>
  /\ last.op = "action"
  /\ Len(calls) = 1

\* C16: subscribe with a non-callable, and every call of the function it
\* returns, ends without an exception and changes neither the listeners nor
\* anything else of the container.
C16_NonCallableIsNotRegistered ==
  [][last'.op \in {"subscribeNonCallable", "noopUnsubscribe"} =>
       /\ outcome' = "fulfilled"
       /\ UNCHANGED <<listeners, listenersArray, needsListenerSync, state,
                      previousState, api, unsubs, stack>>]_vars

C16_Witness ==
  /\ last.op = "noopUnsubscribe"
  /\ Len(listeners) = 2
  /\ previousState # Undefined

\* an unsubscribe function is called whose registration is already gone:
\* called before, removed by destroy(), or replaced by a later subscribe
RepeatedUnsubscribe ==
  \/ /\ last'.op = "unsubscribe"
     /\ unsubs[last'.key] = "called" \/ Destroyed(last'.key)
  \/ last'.op = "unsubscribeEarlier"

\* C17: a second or later call of an unsubscribe function, or one made after
\* destroy(), leaves the registered listeners unchanged, also when the same
\* listener has been subscribed again in between.
C17_UnsubscribeIsIdempotent ==
  [][RepeatedUnsubscribe => (listeners' = listeners /\ outcome' = "fulfilled")]_vars

\* C18: when a write during which a listener threw has ended, every listener
\* subscribed at the time of the call has been invoked for it.
C18_ThrowingListenerDoesNotBlockOthers ==
  (Returned /\ CommittedWrite /\ outcome # "fulfilled") =>
    \A l \in Range(last.preListeners) : Invocations(l) = 1

\* C19: when a write during which a listener threw has ended, the call has
\* not thrown to its caller (the error is the rejection of the promise the
\* call returned) and getState() returns the state the write committed.
C19_ThrowingListenerLeavesTheWriteCommitted ==
  (Returned /\ outcome # "fulfilled") =>
    /\ outcome # "thrown"
    /\ state.id # last.pre.id
    /\ state = calls[Len(calls)].s
    /\ IF last.replace THEN state.f = Candidate.f
       ELSE IsMerge(state, last.pre, Candidate)

C19_Witness ==
  /\ Returned
  /\ outcome = "rejected"
  /\ Len(last.preListeners) = 2
  /\ Len(calls) = 2
  /\ ~last.replace
  /\ "count" \in Keys(state) \cap Keys(last.pre)
  /\ state.f["count"] # last.pre.f["count"]

\* the requests made with options that have no url
WithoutUrl ==
  {i \in DOMAIN net.requests :
     Option(net.requests[i].options, "url") = "undefined"}

\* C20: a request whose options have no url raises its error to the caller
\* at the call; no promise delivers it.
C20_MissingUrlFailsSynchronously ==
  \A i \in WithoutUrl :
    /\ net.requests[i].call = "thrown"
    /\ net.requests[i].promise.state # "rejected"

\* the requests that have been made
Requests == DOMAIN net.requests

\* request i has received a response with a status from 200 to 299
Succeeded(i) ==
  /\ net.requests[i].event.type = "load"
  /\ net.requests[i].event.status \in 200 .. 299

\* request i has received another status, or failed in transport, or timed
\* out
Failed(i) ==
  /\ net.requests[i].event.type # "none"
  /\ ~Succeeded(i)

\* the text is empty or only whitespace
Blank(text) == text \in {"", " "}

\* C21: for a status from 200 to 299 the promise is resolved, never
\* rejected: with the raw text when it is empty or blank, with the decoded
\* value when it is valid JSON, with the raw text otherwise.
C21_SuccessResolvesWithTextOrJson ==
  \A i \in Requests :
    Succeeded(i) =>
      LET text == net.requests[i].event.responseText
          raw == [t |-> "text", v |-> text]
      IN /\ net.requests[i].promise.state = "fulfilled"
         /\ net.requests[i].promise.value =
              IF Blank(text) THEN raw
              ELSE IF JSONparse(text).t = "json" THEN JSONparse(text)
              ELSE raw

C21_Witness ==
  /\ Len(net.requests) = 2
  /\ Succeeded(1)
  /\ Succeeded(2)
  /\ net.requests[1].event.status = 299
  /\ net.requests[1].promise = Resolved([t |-> "text", v |-> "oops"])
  /\ net.requests[2].promise = Resolved([t |-> "json", v |-> [a |-> 1]])

\* C22: for a status outside 200 to 299, a transport failure or a timeout
\* the call has returned a promise that is rejected with an object of the
\* fields status, statusText and response: the HTTP status, or 0 for a
\* transport failure or a timeout, and the raw body, or the empty string.
C22_FailureRejectsWithStatus ==
  \A i \in Requests :
    Failed(i) =>
      /\ net.requests[i].call = "returned"
      /\ net.requests[i].promise.state = "rejected"
      /\ DOMAIN FailureValue(i) = {"status", "statusText", "response"}
      /\ FailureValue(i).status =
           IF net.requests[i].event.type = "load"
           THEN net.requests[i].event.status ELSE 0
      /\ FailureValue(i).response = net.requests[i].event.responseText
      /\ net.requests[i].event.type # "load" => FailureValue(i).response = ""

C22_Witness ==
  /\ Len(net.requests) = 2
  /\ net.requests[1].event = [type |-> "load", status |-> 404,
                              responseText |-> "oops"]
  /\ net.requests[1].promise.state = "rejected"
  /\ FailureValue(1).status = 404
  /\ net.requests[2].event.type = "error"
  /\ FailureValue(2).status = 0

\* the verb of a shortcut
Verb(fn) == HTTP_METHODS[fn]["method"]

\* C23: the request a shortcut sends has the shortcut's verb and the url
\* passed as first argument, whatever fields the options object has.
C23_ShortcutKeepsVerbAndUrl ==
  \A i \in Requests :
    (net.requests[i].fn # "request" /\ net.requests[i].xhr.opened) =>
      /\ net.requests[i].xhr.method = Verb(net.requests[i].fn)
      /\ net.requests[i].xhr.url = net.requests[i].args.url

\* the options of request i have body data: a data field that is not
\* undefined
DataPresent(i) ==
  /\ "data" \in DOMAIN net.requests[i].options
  /\ net.requests[i].options["data"].t # "undefined"

\* the headers the options of request i give
GivenHeaders(i) ==
  IF "headers" \in DOMAIN net.requests[i].options
  THEN {[name |-> name, value |-> net.requests[i].options["headers"][name]] :
          name \in DOMAIN net.requests[i].options["headers"]}
  ELSE {}

\* the options of request i give no Content-Type, or a JSON one
JsonOrNoContentType(i) ==
  \A header \in GivenHeaders(i) :
    header.name = "Content-Type" => header.value = "application/json"

\* C30: a request with GET or HEAD or without data is sent with no body;
\* otherwise an object is sent as its JSON text exactly when the headers
\* have no Content-Type or a JSON one, and any other data is sent as it is;
\* Content-Type: application/json is added exactly when the data was
\* serialized and no Content-Type was given, and no other header is added.
C30_BodyEncoding ==
  \A i \in Requests :
    net.requests[i].xhr.opened =>
      LET data == net.requests[i].options["data"]
          xhr == net.requests[i].xhr
          serialized == data.t = "obj" /\ JsonOrNoContentType(i)
          added == [name |-> "Content-Type", value |-> "application/json"]
      IN IF xhr.method \in {"GET", "HEAD"} \/ ~DataPresent(i)
         THEN xhr.body.t = "none" /\ xhr.headers = GivenHeaders(i)
         ELSE /\ xhr.body = IF serialized
                            THEN [t |-> "JSON.stringify", v |-> data.v]
                            ELSE data
              /\ xhr.headers =
                   IF serialized /\ \A header \in GivenHeaders(i) :
                                      header.name # "Content-Type"
                   THEN GivenHeaders(i) \cup {added}
                   ELSE GivenHeaders(i)

\* the failure of request i as its own handler found it
OwnFailure(i) ==
  [status |-> net.requests[i].event.status,
   statusText |->
     CASE net.requests[i].event.type = "load" ->
            StatusText(net.requests[i].event.status)
       [] net.requests[i].event.type = "error" -> "Network Error"
       [] net.requests[i].event.type = "timeout" -> "Timeout Error",
   response |-> net.requests[i].event.responseText]

\* C29: the value of every promise rejected by a handler holds the status,
\* statusText and response of its own request, however many other requests
\* have failed before or since.
C29_FailureValuesAreIndependent ==
  \A i \in Requests : Failed(i) => FailureValue(i) = OwnFailure(i)

C29_Witness ==
  /\ Len(net.requests) = 2
  /\ Failed(1)
  /\ Failed(2)
  /\ net.requests[1].event.type = "timeout"
  /\ net.requests[2].event.status = 404
  /\ net.errorTemplate.statusText = "Timeout Error"

\* the invocations made by the loop of the consumer's own setState call
OuterBatch == {i \in DOMAIN calls : calls[i].d = 1}

\* C24: all listeners of the batch the consumer's write started receive the
\* pair of that commit: the same new state, and the state before the write
\* as previous state, also when a listener of the batch has called setState.
C24_OneBatchOnePair ==
  \A i, j \in OuterBatch :
    /\ calls[i].s = calls[j].s
    /\ calls[i].p = last.pre

C26_ListenerReadsTheStateItIsPassed ==
  [][ListenerInvoked => calls'[Len(calls')].s = state]_vars

C26_Witness ==
  /\ Idle
  /\ Len(calls) >= 3
  /\ calls[1].d = 1
  /\ calls[2].d = 2
  /\ calls[Len(calls)].d = 1
  /\ calls[Len(calls)].s # calls[1].s
  /\ calls[Len(calls)].s = state

\* the objects the container and its consumer hold
KnownObjects ==
  {obj \in {initialState, state, previousState, last.pre}
           \cup {calls[i].s : i \in DOMAIN calls}
           \cup {calls[i].p : i \in DOMAIN calls}
           \cup Range(updaterArgs)
           \cup (IF last.partial.kind = "obj" THEN {last.partial.o} ELSE {}) :
     obj.id > 0}

\* C27: a write that changes what getState() returns makes it return an
\* object that is none of the objects held before and not the partial, and
\* no object held has two contents: an earlier snapshot keeps its fields.
C27_StateIsReplacedNeverMutated ==
  [][/\ state' # state =>
          /\ state'.id > 0
          /\ \A obj \in KnownObjects : obj.id # state'.id
          /\ last'.partial.kind = "obj" => last'.partial.o.id # state'.id
     /\ \A obj1 \in KnownObjects' : \A obj2 \in KnownObjects \cup KnownObjects' :
          obj1.id = obj2.id => obj1 = obj2]_vars

C27_Witness ==
  /\ Returned
  /\ state.id = MaxObjs
  /\ previousState.id = MaxObjs - 1
  /\ last.pre = previousState
  /\ last.partial.kind = "obj"
  /\ last.replace
  /\ state.f = last.partial.o.f
  /\ calls # <<>>

\* the users of the first n requests whose then-callback has run, in the
\* order the callbacks ran
Appended(n) == [k \in 1 .. n |-> Posted(net.ran[k])]

\* C28: after any number of completions in any order the state holds the
\* users of all of them in completion order, and the updater of the latest
\* one was called once, with the state the one before it had committed.
C28_CompletionsAreSerialized ==
  /\ state.f["users"] = List(Appended(Len(net.ran)))
  /\ last.op = "then" =>
       /\ updaterArgs = <<last.pre>>
       /\ last.pre.f["users"] = List(Appended(Len(net.ran) - 1))

C28_Witness ==
  /\ Idle
  /\ net.ran = <<2, 1>>
  /\ Posted(1) = "Ann"
  /\ Posted(2) = "Bob"
  /\ state.f["users"] = List(<<"Bob", "Ann">>)
  /\ Len(calls) = 2

----------------------------------------------------------------------------
(* shallowEqual applied to any two values *)

Str(s) == [t |-> "str", v |-> s]
UndefinedValue == [t |-> "undefined", v |-> 0]
NullValue == [t |-> "null", v |-> 0]
Object(obj) == [t |-> "object", v |-> obj]

\* the values given as obj1 and obj2
Comparands ==
  {Object(o) : o \in HeapObjects}
    \cup {UndefinedValue, NullValue, Num(0), Num(1), Str(""), Str("a"),
          Fn("increment")}

\* a === b
StrictEqual(a, b) ==
  /\ a.t = b.t
  /\ IF a.t = "object" THEN a.v.id = b.v.id ELSE a.v = b.v

\* !a
Falsy(a) ==
  \/ a.t \in {"undefined", "null"}
  \/ a.t = "num" /\ a.v = 0
  \/ a.t = "str" /\ a.v = ""

\* typeof a === 'object'
TypeofObject(a) == a.t \in {"object", "null"}

\* shallowEqual(a, b): the three early returns, then the comparison of two
\* objects
shallowEqualValues(a, b) ==
  IF StrictEqual(a, b) THEN TRUE
  ELSE IF Falsy(a) \/ Falsy(b) THEN FALSE
  ELSE IF ~TypeofObject(a) \/ ~TypeofObject(b) THEN FALSE
  ELSE shallowEqual(a.v, b.v)

\* One call shallowEqual(obj1, obj2); last holds the arguments and the result.
Compare ==
  /\ last.op = "compare"
  /\ last' = [last EXCEPT !.op = "compared",
                          !.result = shallowEqualValues(last.obj1, last.obj2)]
  /\ UNCHANGED <<initialState, state, previousState, listeners, listenersArray,
                 needsListenerSync, api, unsubs, stack, nextId, calls,
                 updaterArgs, outcome, net>>

InitCompare ==
  /\ \E a, b \in Comparands :
       last = [op |-> "compare", obj1 |-> a, obj2 |-> b, result |-> FALSE]
  /\ initialState = NewObject(1, CounterInit)
  /\ state = NewObject(2, objectAssign(EmptyFields, CounterInit))
  /\ api = Promoted(NewObject(1, CounterInit))
  /\ previousState = Undefined
  /\ listeners = <<>>
  /\ listenersArray = <<>>
  /\ needsListenerSync = TRUE
  /\ unsubs = [l \in Listener |-> "none"]
  /\ stack = <<>>
  /\ nextId = 3
  /\ calls = <<>>
  /\ updaterArgs = <<>>
  /\ outcome = "fulfilled"
  /\ net = NetInit

NextCompare == Compare

SpecCompare == InitCompare /\ [][NextCompare]_vars

\* the value is an array / an object that is not an array
IsArray(a) == a.t = "object" /\ a.v.arr
IsPlainObject(a) == a.t = "object" /\ ~a.v.arr

\* the value is null or undefined
Nullish(a) == a.t \in {"undefined", "null"}

\* the own enumerable fields of an object or array value
OwnFields(a) == DOMAIN a.v.f

\* as field mappings: the same number of fields, and every field of the first
\* is a field of the second with a strictly equal value
EqualAsMappings(a, b) ==
  /\ Cardinality(OwnFields(a)) = Cardinality(OwnFields(b))
  /\ \A k \in OwnFields(a) : k \in OwnFields(b) /\ a.v.f[k] = b.v.f[k]

\* as arrays: the same length and strictly equal elements at every index
EqualAsArrays(a, b) ==
  /\ Cardinality(OwnFields(a)) = Cardinality(OwnFields(b))
  /\ \A i \in 1 .. Cardinality(OwnFields(a)) :
       a.v.f[IndexKey[i]] = b.v.f[IndexKey[i]]

\* C31: shallowEqual follows the one-level algorithm: identical values are
\* equal; otherwise a nullish value or a value that is not an object is equal
\* to nothing; two arrays are equal iff they have the same length and equal
\* elements at every index; two objects that are not arrays are equal iff
\* they have the same number of fields and every field of the first is a
\* field of the second with an equal value; a nested object counts as equal
\* only to itself.
C31_OneLevelAlgorithm ==
  last.op = "compared" =>
    LET a == last.obj1
        b == last.obj2
    IN /\ StrictEqual(a, b) => last.result
       /\ (/\ ~StrictEqual(a, b)
           /\ \/ Nullish(a) \/ Nullish(b)
              \/ a.t # "object" \/ b.t # "object") => ~last.result
       /\ (IsArray(a) /\ IsArray(b) /\ ~StrictEqual(a, b))
            => (last.result <=> EqualAsArrays(a, b))
       /\ (IsPlainObject(a) /\ IsPlainObject(b) /\ ~StrictEqual(a, b))
            => (last.result <=> EqualAsMappings(a, b))
       /\ (/\ a.t = "object" /\ b.t = "object"
           /\ \E k \in OwnFields(a) \cap OwnFields(b) :
                /\ a.v.f[k].t = "ref" /\ b.v.f[k].t = "ref"
                /\ a.v.f[k].v # b.v.f[k].v) => ~last.result

\* two objects whose nested field holds two different objects with the same
\* fields have been compared, and found different
C31_Witness ==
  /\ last.op = "compared"
  /\ last.obj1.t = "object" /\ last.obj2.t = "object"
  /\ last.obj1.v.f = [nested |-> Ref(1)]
  /\ last.obj2.v.f = [nested |-> Ref(2)]
  /\ Deref(1).f = Deref(2).f
  /\ ~last.result

\* C32: an array compared with an object that is not an array is compared
\* field by field: the two are equal iff they have the same number of
\* fields and every field of the first is a field of the second with an
\* equal value.
C32_ArrayAndObjectAsMappings ==
  (/\ last.op = "compared"
   /\ last.obj1.t = "object" /\ last.obj2.t = "object"
   /\ IsArray(last.obj1) # IsArray(last.obj2))
    => (last.result <=> EqualAsMappings(last.obj1, last.obj2))

----------------------------------------------------------------------------
(* Listeners that subscribe and unsubscribe during a batch *)

\* the invocation at the top of the stack, of a listener whose body calls
\* subscribe(target) or the unsubscribe function of target
InvocationCalling(op, target) ==
  [l |-> Invocation.l, s |-> Invocation.s, p |-> Invocation.p,
   d |-> Invocation.d, op |-> op, target |-> target]

\* listenersArray[i](state, previousState), the listener calling the
\* unsubscribe function of l and returning
ListenerUnsubscribes(l) ==
  /\ stack # <<>>
  /\ LET i == stack[Len(stack)] IN
     /\ i <= Len(listenersArray)
     /\ unsubs[l] # "none"
     /\ calls' = Append(calls, InvocationCalling("unsubscribe", l))
     /\ stack' = [stack EXCEPT ![Len(stack)] = i + 1]
  /\ listeners' = SetDelete(listeners, l)
  /\ needsListenerSync' = SyncAfterDelete(SetHas(listeners, l), needsListenerSync)
  /\ unsubs' = [unsubs EXCEPT ![l] = "called"]
  /\ UNCHANGED <<initialState, state, previousState, listenersArray, api,
                 nextId, last, updaterArgs, outcome, net>>

\* listenersArray[i](state, previousState), the listener calling
\* store.subscribe(l) and returning
ListenerSubscribes(l) ==
  /\ stack # <<>>
  /\ LET i == stack[Len(stack)] IN
     /\ i <= Len(listenersArray)
     /\ calls' = Append(calls, InvocationCalling("subscribe", l))
     /\ stack' = [stack EXCEPT ![Len(stack)] = i + 1]
  /\ listeners' = SetAdd(listeners, l)
  /\ needsListenerSync' = TRUE
  /\ unsubs' = [unsubs EXCEPT ![l] = "held"]
  /\ UNCHANGED <<initialState, state, previousState, listenersArray, api,
                 nextId, last, updaterArgs, outcome, net>>

NextBatch ==
  \/ \E partial \in ReentrantPartials, replace \in BOOLEAN :
       SetState(partial, replace)
  \/ \E l \in Listener : Subscribe(l)
  \/ \E l \in Listener : Unsubscribe(l)
  \/ ListenerReturns
  \/ \E partial \in ReentrantPartials : ListenerSetsState(partial)
  \/ \E l \in Listener : ListenerUnsubscribes(l)
  \/ \E l \in Listener : ListenerSubscribes(l)
  \/ SetStateReturns

SpecBatch == InitWith({CounterInit}) /\ [][NextBatch]_vars

\* C33: after the unsubscribe function of a listener has been called, the
\* listener is not invoked until it is subscribed again, also not by the
\* batch in progress when another listener called that function.
C33_UnsubscribedIsNotInvoked ==
  [][\A l \in Listener :
       (unsubs[l] = "called" /\ ListenerInvoked)
         => calls'[Len(calls')].l # l]_vars

\* the invocations whose listener called subscribe(l) or the unsubscribe
\* function of l
ListenerCalls(l) ==
  {i \in DOMAIN calls : "op" \in DOMAIN calls[i] /\ calls[i].target = l}

\* the last element of a non-empty set of indices
Latest(indices) == CHOOSE i \in indices : \A j \in indices : j <= i

\* l was registered when the object getState() returns was committed
RegisteredAtCommit(l) ==
  LET earlier == {i \in ListenerCalls(l) : calls[i].s.id < state.id}
  IN IF earlier = {} THEN SetHas(last.preListeners, l)
     ELSE calls[Latest(earlier)].op = "subscribe"

\* ... and its unsubscribe function has not been called since
ContinuouslySubscribed(l) ==
  /\ RegisteredAtCommit(l)
  /\ \A i \in ListenerCalls(l) :
       calls[i].s.id = state.id => calls[i].op # "unsubscribe"

\* the invocations of listener l during the operation
InvocationsOf(l) == {i \in DOMAIN calls : calls[i].l = l}

\* C34: when a committing setState call of the consumer has returned, every
\* listener that was registered at the most recent commit and has stayed
\* registered was last invoked with the object getState() returns as first
\* argument, also when listeners have called setState, subscribe or an
\* unsubscribe function during the notification.
C34_NoStaleSubscriber ==
  (Returned /\ last.op = "setState" /\ CommittedWrite) =>
    \A l \in Listener :
      ContinuouslySubscribed(l) =>
        /\ InvocationsOf(l) # {}
        /\ calls[Latest(InvocationsOf(l))].s = state

\* a write has returned during which one listener called setState and
\* committed, another called subscribe or an unsubscribe function, and a
\* listener has stayed registered
C34_Witness ==
  /\ Returned /\ last.op = "setState" /\ CommittedWrite
  /\ \E i \in DOMAIN calls : calls[i].d = 2
  /\ \E i \in DOMAIN calls : "op" \in DOMAIN calls[i]
  /\ \E l \in Listener :
       /\ ContinuouslySubscribed(l)
       /\ Cardinality(InvocationsOf(l)) > 1

----------------------------------------------------------------------------
(* Initial state objects with function fields named like the core operations *)

CoreNames == DOMAIN CoreApi

\* (set) => ({ count: 0, <name>: n => set(s => ({ count: s.count + n })) })
\* with one such function field for every name given
ShadowingInit(names) ==
  [k \in {"count"} \cup names |-> IF k = "count" THEN Num(0) ELSE Fn(k)]

ShadowingInits == {ShadowingInit(names) : names \in SUBSET CoreNames}

\* the function the handle has under the name op is the one api was built with
Unshadowed(op) == Handle[op] = CoreApi[op]

\* store.setState(...), store.subscribe(...), store.destroy() run the core
\* operation when the handle still has it; a function of the initial state
\* assigned over it is called as an action
HandleSetState(partial, replace) ==
  Unshadowed("setState") /\ SetState(partial, replace)

HandleSubscribe(l) == Unshadowed("subscribe") /\ Subscribe(l)

HandleDestroy == Unshadowed("destroy") /\ Destroy

NextShadowing ==
  \/ \E partial \in ReentrantPartials, replace \in BOOLEAN :
       HandleSetState(partial, replace)
  \/ \E key \in CoreNames, n \in 1 .. MaxVal : CallAction(key, n)
  \/ \E l \in Listener : HandleSubscribe(l)
  \/ \E l \in Listener : Unsubscribe(l)
  \/ HandleDestroy
  \/ ListenerReturns
  \/ SetStateReturns

SpecShadowing == InitWith(ShadowingInits) /\ [][NextShadowing]_vars

\* C35: whatever function fields the initial state object has, the handle's
\* getState, setState, subscribe and destroy are the operations of the
\* container.
C35_CoreOperationsNotShadowed ==
  \A op \in CoreNames : Handle[op] = CoreApi[op]

----------------------------------------------------------------------------
(* create, step by step: the initializer calling set before it returns *)

\* createState(setState) has been called and has not returned
Running == initialState = Undefined

\* the objects the initializer passes to set while it runs
InitializerPartials ==
  {ObjectPartial(Literal([count |-> Num(1)])),
   ObjectPartial(Literal([name |-> Num(1)]))}

\* var state; ... createState(setState) is entered
InitCreate ==
  /\ initialState = Undefined
  /\ state = Undefined
  /\ previousState = Undefined
  /\ api = EmptyFields
  /\ last = Operation("creating", "")
  /\ listeners = <<>>
  /\ listenersArray = <<>>
  /\ needsListenerSync = TRUE
  /\ unsubs = [l \in Listener |-> "none"]
  /\ stack = <<>>
  /\ nextId = 1
  /\ calls = <<>>
  /\ updaterArgs = <<>>
  /\ outcome = "fulfilled"
  /\ net = NetInit

\* the body of the initializer calls set(partial, replace), once
InitializerSets(partial, replace) ==
  /\ Running
  /\ last.op = "creating"
  /\ last' = Write("set", partial, replace, "", 0)
  /\ setState(stack, partial, replace, updaterArgs)
  /\ UNCHANGED <<initialState, listeners, api, unsubs, calls, outcome, net>>

\* the initializer returns an object with the given fields:
\* initialState = createState(setState); state = objectAssign({}, initialState)
\* and the rest of create
InitializerReturns(fields) ==
  /\ Running
  /\ initialState' = NewObject(nextId, fields)
  /\ state' = NewObject(nextId + 1, objectAssign(EmptyFields, fields))
  /\ api' = Promoted(NewObject(nextId, fields))
  /\ nextId' = nextId + 2
  /\ last' = [last EXCEPT !.op = "create"]
  /\ UNCHANGED <<previousState, listeners, listenersArray, needsListenerSync,
                 unsubs, stack, calls, updaterArgs, outcome, net>>

\* the operations of the handle, which exists once create has returned
StoreSetState(partial, replace) == ~Running /\ SetState(partial, replace)

StoreSubscribe(l) == ~Running /\ Subscribe(l)

StoreUnsubscribe(l) == ~Running /\ Unsubscribe(l)

NextCreate ==
  \/ \E partial \in InitializerPartials, replace \in BOOLEAN :
       InitializerSets(partial, replace)
  \/ \E fields \in {CounterInit, ActionsInit} : InitializerReturns(fields)
  \/ \E partial \in ReentrantPartials, replace \in BOOLEAN :
       StoreSetState(partial, replace)
  \/ \E l \in Listener : StoreSubscribe(l)
  \/ \E l \in Listener : StoreUnsubscribe(l)
  \/ ListenerReturns
  \/ SetStateReturns

SpecCreate == InitCreate /\ [][NextCreate]_vars

\* C36: when create has returned and the initializer had called set with an
\* object, getState() has the fields of that object merged with the fields
\* of the object the initializer returned.
C36_InitializerWriteIsKept ==
  (last.op = "create" /\ last.partial # NoPartial) =>
    \/ state.f = objectAssign(initialState.f, last.partial.o.f)
    \/ state.f = objectAssign(last.partial.o.f, initialState.f)

----------------------------------------------------------------------------
(* The same function subscribed more than once *)

\* store.subscribe(l), the consumer keeping every unsubscribe function it is
\* given: unsubs[l] is "twice" when it holds more than one for the
\* registration of l
SubscribeCounted(l) ==
  /\ Idle
  /\ listeners' = SetAdd(listeners, l)
  /\ needsListenerSync' = TRUE
  /\ unsubs' = [unsubs EXCEPT ![l] =
                  IF SetHas(listeners, l) /\ @ \in {"held", "twice"}
                  THEN "twice" ELSE "held"]
  /\ Finish("subscribe", l)
  /\ UNCHANGED <<initialState, state, previousState, listenersArray, api,
                 stack, nextId, net>>

\* one of the unsubscribe functions held for l is called; unsubs[l] becomes
\* "other" when another one, not yet called, is left
UnsubscribeCounted(l) ==
  /\ Idle
  /\ unsubs[l] # "none"
  /\ listeners' = SetDelete(listeners, l)
  /\ needsListenerSync' = SyncAfterDelete(SetHas(listeners, l), needsListenerSync)
  /\ unsubs' = [unsubs EXCEPT ![l] = IF @ = "twice" THEN "other" ELSE "called"]
  /\ Finish("unsubscribe", l)
  /\ UNCHANGED <<initialState, state, previousState, listenersArray, api,
                 stack, nextId, net>>

NextCounted ==
  \/ \E partial \in ReentrantPartials, replace \in BOOLEAN :
       SetState(partial, replace)
  \/ \E l \in Listener : SubscribeCounted(l)
  \/ \E l \in Listener : UnsubscribeCounted(l)
  \/ ListenerReturns
  \/ SetStateReturns

SpecCounted == InitWith({CounterInit}) /\ [][NextCounted]_vars

\* C37: a function subscribed more than once is invoked exactly once by a
\* committing write; one call of one of its unsubscribe functions removes
\* the registration, and a call of another one afterwards changes nothing.
C37_RegistrationsAreASet ==
  [][\A l \in Listener :
       /\ (Returned' /\ CommittedWrite' /\ unsubs'[l] = "twice")
            => Invocations(l)' = 1
       /\ (unsubs[l] = "twice" /\ unsubs'[l] = "other")
            => ~SetHas(listeners', l)
       /\ (unsubs[l] = "other" /\ unsubs'[l] = "called")
            => (/\ listeners' = listeners
                /\ needsListenerSync' = needsListenerSync
                /\ listenersArray' = listenersArray
                /\ state' = state)]_vars

\* a committing write has returned with L1 subscribed twice and invoked
\* once, after L2 was subscribed twice and one of its unsubscribe functions
\* called
C37_Witness ==
  /\ Returned /\ CommittedWrite
  /\ unsubs["L1"] = "twice" /\ Invocations("L1") = 1
  /\ unsubs["L2"] = "other" /\ Invocations("L2") = 0

====
